---- MODULE Spec2Model ----
(***************************************************************************)
(* Preprocessing orchestrator: one Durable Object (one batch id).          *)
(*                                                                         *)
(* State: the persisted BatchState (ctx.storage 'state'), the Durable      *)
(* Object alarm, the worker machines spawned and not yet called back, and  *)
(* the position of the operation in progress (idle, or awaiting the        *)
(* response of the finalization delivery).                                 *)
(*                                                                         *)
(* Operations of one batch are serialized: an operation runs from its      *)
(* loadState to its last saveState without another one starting.  The      *)
(* only point inside an operation that is a state of the model is the      *)
(* await of the delivery fetch in finalizeBatch, where status DONE has     *)
(* already been persisted (batch-do.ts:283-285) and can be read.           *)
(*                                                                         *)
(* Time is kept relative to Date.now(): an armed alarm holds the delay it  *)
(* was armed with, a started task the milliseconds elapsed since its       *)
(* started_at.                                                             *)
(***************************************************************************)
EXTENDS Integers, Sequences, FiniteSets, TLC

VARIABLES
  env,          \* the deployment's Env vars (wrangler vars), fixed per run
  storage,      \* ctx.storage.get('state'): a BatchState, or NoState
  alarm,        \* the delay the alarm was armed with (ms), or NoAlarm
  pc,           \* "idle", or "delivering": finalizeBatch awaits its fetch
  machines,     \* task ids for which a spawned worker has yet to post its result
  last_op,      \* history: the operation (and branch) that ran last
  transitions,  \* history: calls of transitionToNextPhase since the last genuine start
  deliveries,   \* history: delivery fetches issued for this batch id (saturating)
  failed_ticks, \* history: consecutive ticks whose executeBatch threw
  retry_before, \* history: phase_retry_count as the last tick that ran executeBatch loaded it
  sent,         \* history: the body of the delivery request of this run: <<>> or <<files>>
  memory        \* this.state (in reset: its local state) as the last operation left it

vars == <<env, storage, alarm, pc, machines, last_op, transitions, deliveries,
          failed_ticks, retry_before, sent, memory>>

(***************************************************************************)
(* Bounds of the model.                                                    *)
(***************************************************************************)
MaxFiles == 2        \* files in one queue message
TimeStep == 1000     \* ms an alarm may fire late
CountCap == 2        \* saturation of the history counters

NoAlarm == -1
NoTime == -1

Min(a, b) == IF a <= b THEN a ELSE b
Max(a, b) == IF a >= b THEN a ELSE b

RECURSIVE Pow2(_)
Pow2(k) == IF k <= 0 THEN 1 ELSE 2 * Pow2(k - 1)

Range(s) == {s[i] : i \in DOMAIN s}

RECURSIVE FlatMap(_, _)
FlatMap(F(_), s) == IF s = <<>> THEN <<>> ELSE F(Head(s)) \o FlatMap(F, Tail(s))

RECURSIVE Filter(_, _)
Filter(P(_), s) ==
  IF s = <<>> THEN <<>>
  ELSE (IF P(Head(s)) THEN <<Head(s)>> ELSE <<>>) \o Filter(P, Tail(s))

(***************************************************************************)
(* Configuration: loadConfig(env).  Env values are the numeric strings of  *)
(* the deployment, kept here as the numbers parseInt yields.               *)
(***************************************************************************)
EnvOr(e, key, default) == IF key \in DOMAIN e THEN e[key] ELSE default

loadConfig(e) ==
  [ BATCH_SIZE_TIFF_CONVERSION    |-> EnvOr(e, "BATCH_SIZE_TIFF_CONVERSION", 1000),
    BATCH_SIZE_IMAGE_PROCESSING   |-> EnvOr(e, "BATCH_SIZE_IMAGE_PROCESSING", 1000),
    ALARM_DELAY_TIFF_CONVERSION   |-> EnvOr(e, "ALARM_DELAY_TIFF_CONVERSION", 5000),
    ALARM_DELAY_IMAGE_PROCESSING  |-> EnvOr(e, "ALARM_DELAY_IMAGE_PROCESSING", 5000),
    ALARM_DELAY_ERROR_RETRY       |-> EnvOr(e, "ALARM_DELAY_ERROR_RETRY", 30000),
    TASK_TIMEOUT_TIFF_CONVERSION  |-> EnvOr(e, "TASK_TIMEOUT_TIFF_CONVERSION", 60000),
    TASK_TIMEOUT_IMAGE_PROCESSING |-> EnvOr(e, "TASK_TIMEOUT_IMAGE_PROCESSING", 120000),
    MAX_RETRY_ATTEMPTS            |-> EnvOr(e, "MAX_RETRY_ATTEMPTS", 5) ]

\* The deployments explored: short delays and timeouts, so that the clock
\* needs few steps.  The first has a backoff cap that the second retry
\* reaches and a batch size below the number of tasks; the second keeps the
\* default cap and batch size.
Envs ==
  { [ BATCH_SIZE_TIFF_CONVERSION    |-> 1,
      BATCH_SIZE_IMAGE_PROCESSING   |-> 1,
      ALARM_DELAY_TIFF_CONVERSION   |-> 2000,
      ALARM_DELAY_ERROR_RETRY       |-> 3000,
      TASK_TIMEOUT_TIFF_CONVERSION  |-> 1000,
      TASK_TIMEOUT_IMAGE_PROCESSING |-> 1000,
      MAX_RETRY_ATTEMPTS            |-> 3 ],
    [ ALARM_DELAY_TIFF_CONVERSION   |-> 1000,
      TASK_TIMEOUT_TIFF_CONVERSION  |-> 2000,
      TASK_TIMEOUT_IMAGE_PROCESSING |-> 2000,
      MAX_RETRY_ATTEMPTS            |-> 2 ] }

config == loadConfig(env)

(***************************************************************************)
(* Files and queue messages.                                               *)
(***************************************************************************)
\* A file name is a stem and an extension: "scan" + "." + "TIFF".
Name(stem, ext) == [stem |-> stem, ext |-> ext]

toLowerCase(s) ==
  CASE s = "TIFF" -> "tiff"
    [] s = "TIF" -> "tif"
    [] s = "JPG" -> "jpg"
    [] OTHER -> s

\* /\.tiff?$/i.test(fileName)
isTiff(fileName) == toLowerCase(fileName.ext) \in {"tif", "tiff"}

\* logical_path.replace(/\.tiff?$/i, '.jpg')
replaceTiffExt(path) == IF isTiff(path) THEN [path EXCEPT !.ext = "jpg"] ELSE path

QueueFile(key, stem, ext, ctype) ==
  [ r2_key |-> key, logical_path |-> Name(stem, ext), file_name |-> Name(stem, ext),
    file_size |-> 1, content_type |-> ctype ]

\* The files of the upload a queue message is cut from.  The first two share
\* a storage key; the third is a TIFF uploaded with the content type of a JPEG.
QueueFiles ==
  << QueueFile("k1", "a", "tif", "image/tiff"),
     QueueFile("k1", "d", "tiff", "image/tiff"),
     QueueFile("k2", "b", "TIFF", "image/jpeg"),
     QueueFile("k3", "c", "jpg", "image/jpeg") >>

\* The file lists of at most MaxFiles files: the runs of consecutive files.
FileLists ==
  { SubSeq(QueueFiles, from, Min(from + n - 1, Len(QueueFiles))) :
      from \in DOMAIN QueueFiles, n \in 0..MaxFiles }

\* A queue message: its directories, each with files and a processing_config.
Directory(files, cfg) == [files |-> files, processing_config |-> cfg]

QueueMessages ==
  { <<Directory(SubSeq(l, 1, Min(1, Len(l))), "cfg1"), Directory(SubSeq(l, 2, Len(l)), "cfg2")>> :
      l \in FileLists }

\* startBatch's loop over directories and files: the initial ProcessableFile list.
DirectoryFiles(directory) ==
  [ i \in DOMAIN directory.files |->
      [ r2_key            |-> directory.files[i].r2_key,
        logical_path      |-> directory.files[i].logical_path,
        file_name         |-> directory.files[i].file_name,
        file_size         |-> directory.files[i].file_size,
        content_type      |-> directory.files[i].content_type,
        processing_config |-> directory.processing_config,
        source_file       |-> Name("", ""),
        preprocessor_tags |-> <<>> ] ]

InitialFiles(queueMessage) == FlatMap(DirectoryFiles, queueMessage)

(***************************************************************************)
(* Tasks.  An undefined string is "", an undefined number 0, an undefined  *)
(* name Name("", ""): the values JavaScript treats as false.               *)
(***************************************************************************)
NoName == Name("", "")
TruthyName(n) == n # NoName

\* utils/task-id.ts is not part of the sources: the identifier is derived
\* deterministically from the phase kind and the input storage key.
generateTaskId(prefix, r2_key) == <<prefix, r2_key>>

Phases == {"TIFF_CONVERSION", "IMAGE_PROCESSING"}

R2Keys == {f.r2_key : f \in Range(QueueFiles)}
TaskIds == {generateTaskId(p, k) : p \in {"tiff", "img"}, k \in R2Keys \cup {k \o ".jpg" : k \in R2Keys}}
UnknownTaskId == generateTaskId("tiff", "nokey")

IsResolved(t) == t.status = "completed" \/ t.status = "failed"

\* Object.values(tasks).every(t => completed || failed)
allDone(tasks) == \A i \in DOMAIN tasks : IsResolved(tasks[i])

\* Object.fromEntries(tasks.map(t => [t.task_id, t])): an object keeps a key at
\* the position of its first insertion and takes the value of its last one.
RECURSIVE fromEntries(_)
fromEntries(tasks) ==
  IF tasks = <<>> THEN <<>>
  ELSE LET n == Len(tasks)
           last == tasks[n]
           init == fromEntries(SubSeq(tasks, 1, n - 1))
       IN IF \E i \in DOMAIN init : init[i].task_id = last.task_id
          THEN [i \in DOMAIN init |-> IF init[i].task_id = last.task_id THEN last ELSE init[i]]
          ELSE Append(init, last)

\* Variant: the lookup settles for any task of the phase.
Matches_anyTask(task, taskId) == TRUE

\* current_phase_tasks[taskId]: the entry stored under the key taskId.
Matches(task, taskId) == task.task_id = taskId

HasTask(tasks, taskId) == \E i \in DOMAIN tasks : Matches(tasks[i], taskId)
TaskIndex(tasks, taskId) == CHOOSE i \in DOMAIN tasks : Matches(tasks[i], taskId)

(***************************************************************************)
(* The persisted BatchState.  queue_message and the ISO timestamps of the  *)
(* batch are written and never read by the orchestrator; they are left out.*)
(***************************************************************************)
NoState ==
  [ status |-> "NONE", current_file_list |-> <<>>, current_phase_tasks |-> <<>>,
    tasks_total |-> 0, tasks_completed |-> 0, tasks_failed |-> 0,
    error |-> <<>>, phase_retry_count |-> 0 ]

Exists(st) == st.status # "NONE"
Terminal(st) == st.status = "DONE" \/ st.status = "ERROR"

(***************************************************************************)
(* TiffConversionPhase                                                     *)
(***************************************************************************)
TiffDiscover(files) ==
  FlatMap(LAMBDA file :
            IF isTiff(file.file_name)
            THEN << [ task_id          |-> generateTaskId("tiff", file.r2_key),
                      status           |-> "pending",
                      input_r2_key     |-> file.r2_key,
                      input_file_name  |-> file.file_name,
                      started_ago      |-> NoTime,
                      error            |-> "",
                      output_r2_key    |-> "",
                      output_file_name |-> NoName,
                      output_file_size |-> 0 ] >>
            ELSE <<>>,
          files)

\* Variant: the elapsed milliseconds are compared with the timeout as if it were seconds.
TimedOut_unitMismatch(task, timeoutMs) ==
  task.status = "processing" /\ task.started_ago # NoTime /\ task.started_ago > timeoutMs * 1000

\* elapsed > timeoutMs for a processing task with a started_at
TimedOut(task, timeoutMs) ==
  task.status = "processing" /\ task.started_ago # NoTime /\ task.started_ago > timeoutMs

\* Variant: every check counts all the tasks that are failed after it.
TiffCheckTimeouts_recount(state, timeoutMs) ==
  LET tasks == state.current_phase_tasks
      hit == {i \in DOMAIN tasks : TimedOut(tasks[i], timeoutMs)}
  IN [ state EXCEPT
         !.current_phase_tasks =
           [ i \in DOMAIN tasks |->
               IF i \in hit THEN [tasks[i] EXCEPT !.status = "failed", !.error = "timed out"]
               ELSE tasks[i] ],
         !.tasks_failed = @ + Cardinality(hit \cup {i \in DOMAIN tasks : tasks[i].status = "failed"}) ]

TiffCheckTimeouts(state, timeoutMs) ==
  LET tasks == state.current_phase_tasks
      hit == {i \in DOMAIN tasks : TimedOut(tasks[i], timeoutMs)}
  IN [ state EXCEPT
         !.current_phase_tasks =
           [ i \in DOMAIN tasks |->
               IF i \in hit THEN [tasks[i] EXCEPT !.status = "failed", !.error = "timed out"]
               ELSE tasks[i] ],
         !.tasks_failed = @ + Cardinality(hit) ]

\* Variant: the failed tasks are selected along with the pending ones.
PendingSlice_orFailed(tasks, batchSize) ==
  LET pending == Filter(LAMBDA i : tasks[i].status \in {"pending", "failed"},
                        [i \in DOMAIN tasks |-> i])
  IN SubSeq(pending, 1, Min(batchSize, Len(pending)))

\* Variant: the pending tasks are not cut to the batch size.
PendingSlice_uncut(tasks, batchSize) ==
  Filter(LAMBDA i : tasks[i].status = "pending", [i \in DOMAIN tasks |-> i])

\* Indices of the pending tasks, in Object.values order, cut to the batch size.
PendingSlice(tasks, batchSize) ==
  LET pending == Filter(LAMBDA i : tasks[i].status = "pending", [i \in DOMAIN tasks |-> i])
  IN SubSeq(pending, 1, Min(batchSize, Len(pending)))

\* Variant: a task whose dispatch was rejected is marked failed.
MarkSpawned_rejectedFail(state, selected, fulfilled) ==
  [ state EXCEPT
      !.current_phase_tasks =
        [ i \in DOMAIN @ |->
            IF i \in Range(selected)
            THEN IF i \in fulfilled
                 THEN [@[i] EXCEPT !.status = "processing", !.started_ago = 0]
                 ELSE [@[i] EXCEPT !.status = "failed"]
            ELSE @[i] ] ]

\* The spawn loop: a task whose spawnFlyMachine fulfilled becomes processing.
MarkSpawned(state, selected, fulfilled) ==
  [ state EXCEPT
      !.current_phase_tasks =
        [ i \in DOMAIN @ |->
            IF i \in Range(selected) /\ i \in fulfilled
            THEN [@[i] EXCEPT !.status = "processing", !.started_ago = 0]
            ELSE @[i] ] ]

\* executeBatch: fulfilled is the set of task indices whose spawn would succeed.
\* Returns the state, the machines spawned and hasMoreWork.
TiffExecuteBatch(state, cfg, fulfilled) ==
  LET checked == TiffCheckTimeouts(state, cfg.TASK_TIMEOUT_TIFF_CONVERSION)
      pendingTasks == PendingSlice(checked.current_phase_tasks, cfg.BATCH_SIZE_TIFF_CONVERSION)
  IN IF Len(pendingTasks) = 0
     THEN [ state |-> checked, spawned |-> {},
            more |-> ~allDone(checked.current_phase_tasks) ]
     ELSE [ state |-> MarkSpawned(checked, pendingTasks, fulfilled),
            spawned |-> Range(pendingTasks) \cap fulfilled,
            more |-> TRUE ]

\* The results a tiff worker started for input_r2_key may post: a conversion
\* with its output, a "success" that lacks the output fields, or an error.
TiffResults(input_r2_key) ==
  { [ status |-> "success", output_r2_key |-> input_r2_key \o ".jpg",
      output_file_name |-> Name(input_r2_key, "jpg"), output_file_size |-> 1,
      error |-> "" ],
    [ status |-> "success", output_r2_key |-> "", output_file_name |-> NoName,
      output_file_size |-> 0, error |-> "" ],
    [ status |-> "error", output_r2_key |-> "", output_file_name |-> NoName,
      output_file_size |-> 0, error |-> "conversion failed" ] }

TiffHandleCallback(state, i, result) ==
  IF result.status = "success"
  THEN [ state EXCEPT
           !.current_phase_tasks[i].status = "completed",
           !.current_phase_tasks[i].output_r2_key = result.output_r2_key,
           !.current_phase_tasks[i].output_file_name = result.output_file_name,
           !.current_phase_tasks[i].output_file_size = result.output_file_size,
           !.tasks_completed = @ + 1 ]
  ELSE [ state EXCEPT
           !.current_phase_tasks[i].status = "failed",
           !.current_phase_tasks[i].error = result.error,
           !.tasks_failed = @ + 1 ]

TiffGetNextPhase == "null"

\* Variant: the file of any task found is treated as converted.
TiffTransformFile_anyTask(file, task) ==
  IF task # <<>>
  THEN << [ file EXCEPT !.preprocessor_tags = Append(@, "TiffConverter:source") ],
          [ r2_key            |-> task[1].output_r2_key,
            logical_path      |-> replaceTiffExt(file.logical_path),
            file_name         |-> task[1].output_file_name,
            file_size         |-> task[1].output_file_size,
            content_type      |-> "image/jpeg",
            processing_config |-> file.processing_config,
            source_file       |-> file.file_name,
            preprocessor_tags |-> <<"TiffConverter">> ] >>
  ELSE <<file>>

\* Variant: the converted JPEG takes the place of its TIFF.
TiffTransformFile_replaces(file, task) ==
  IF /\ task # <<>>
     /\ task[1].status = "completed"
     /\ task[1].output_r2_key # ""
     /\ TruthyName(task[1].output_file_name)
     /\ task[1].output_file_size # 0
  THEN << [ r2_key            |-> task[1].output_r2_key,
            logical_path      |-> replaceTiffExt(file.logical_path),
            file_name         |-> task[1].output_file_name,
            file_size         |-> task[1].output_file_size,
            content_type      |-> "image/jpeg",
            processing_config |-> file.processing_config,
            source_file       |-> file.file_name,
            preprocessor_tags |-> <<"TiffConverter">> ] >>
  ELSE <<file>>

\* task is a sequence: <<>> for undefined, <<t>> for the task found.
TiffTransformFile(file, task) ==
  IF /\ task # <<>>
     /\ task[1].status = "completed"
     /\ task[1].output_r2_key # ""
     /\ TruthyName(task[1].output_file_name)
     /\ task[1].output_file_size # 0
  THEN << [ file EXCEPT !.preprocessor_tags = Append(@, "TiffConverter:source") ],
          [ r2_key            |-> task[1].output_r2_key,
            logical_path      |-> replaceTiffExt(file.logical_path),
            file_name         |-> task[1].output_file_name,
            file_size         |-> task[1].output_file_size,
            content_type      |-> "image/jpeg",
            processing_config |-> file.processing_config,
            source_file       |-> file.file_name,
            preprocessor_tags |-> <<"TiffConverter">> ] >>
  ELSE <<file>>

(***************************************************************************)
(* ImageProcessingPhase                                                    *)
(***************************************************************************)
isProcessableImage(file) ==
  toLowerCase(file.content_type) \in {"image/jpeg", "image/jpg", "image/png", "image/webp"}

includes(tags, tag) == \E i \in DOMAIN tags : tags[i] = tag

\* Variant: the files tagged as TIFF sources are not skipped.
ImageDiscover_noSkip(files) ==
  FlatMap(LAMBDA file :
            IF isProcessableImage(file)
            THEN << [ task_id            |-> generateTaskId("img", file.r2_key),
                      status             |-> "pending",
                      input_r2_key       |-> file.r2_key,
                      input_file_name    |-> file.file_name,
                      input_content_type |-> file.content_type,
                      input_file_size    |-> file.file_size,
                      started_ago        |-> NoTime,
                      error              |-> "",
                      ref_json_r2_key    |-> "",
                      ref_data           |-> "",
                      archive_r2_key     |-> "" ] >>
            ELSE <<>>,
          files)

ImageDiscover(files) ==
  FlatMap(LAMBDA file :
            IF isProcessableImage(file) /\ ~includes(file.preprocessor_tags, "TiffConverter:source")
            THEN << [ task_id            |-> generateTaskId("img", file.r2_key),
                      status             |-> "pending",
                      input_r2_key       |-> file.r2_key,
                      input_file_name    |-> file.file_name,
                      input_content_type |-> file.content_type,
                      input_file_size    |-> file.file_size,
                      started_ago        |-> NoTime,
                      error              |-> "",
                      ref_json_r2_key    |-> "",
                      ref_data           |-> "",
                      archive_r2_key     |-> "" ] >>
            ELSE <<>>,
          files)

ImageCheckTimeouts(state, timeoutMs) ==
  LET tasks == state.current_phase_tasks
      hit == {i \in DOMAIN tasks : TimedOut(tasks[i], timeoutMs)}
  IN [ state EXCEPT
         !.current_phase_tasks =
           [ i \in DOMAIN tasks |->
               IF i \in hit THEN [tasks[i] EXCEPT !.status = "failed", !.error = "timed out"]
               ELSE tasks[i] ],
         !.tasks_failed = @ + Cardinality(hit) ]

ImageExecuteBatch(state, cfg, fulfilled) ==
  LET pendingTasks == PendingSlice(state.current_phase_tasks, cfg.BATCH_SIZE_IMAGE_PROCESSING)
  IN IF Len(pendingTasks) = 0
     THEN IF allDone(state.current_phase_tasks)
          THEN [state |-> state, spawned |-> {}, more |-> FALSE]
          ELSE [ state |-> ImageCheckTimeouts(state, cfg.TASK_TIMEOUT_IMAGE_PROCESSING),
                 spawned |-> {}, more |-> TRUE ]
     ELSE [ state |-> MarkSpawned(state, pendingTasks, fulfilled),
            spawned |-> Range(pendingTasks) \cap fulfilled,
            more |-> TRUE ]

ImageResults(input_r2_key) ==
  { [ status |-> "success", ref_json_r2_key |-> input_r2_key \o ".ref.json",
      ref_data |-> "cdn:" \o input_r2_key, archive_r2_key |-> "archive:" \o input_r2_key,
      error |-> "" ],
    [ status |-> "success", ref_json_r2_key |-> "", ref_data |-> "", archive_r2_key |-> "",
      error |-> "" ],
    [ status |-> "error", ref_json_r2_key |-> "", ref_data |-> "", archive_r2_key |-> "",
      error |-> "processing failed" ] }

ImageHandleCallback(state, i, result) ==
  IF result.status = "success"
  THEN [ state EXCEPT
           !.current_phase_tasks[i].status = "completed",
           !.current_phase_tasks[i].ref_json_r2_key = result.ref_json_r2_key,
           !.current_phase_tasks[i].ref_data = result.ref_data,
           !.current_phase_tasks[i].archive_r2_key = result.archive_r2_key,
           !.tasks_completed = @ + 1 ]
  ELSE [ state EXCEPT
           !.current_phase_tasks[i].status = "failed",
           !.current_phase_tasks[i].error = result.error,
           !.tasks_failed = @ + 1 ]

ImageGetNextPhase == "null"

ImageTransformFile(file, task) ==
  IF /\ task # <<>>
     /\ task[1].status = "completed"
     /\ task[1].ref_json_r2_key # ""
     /\ task[1].ref_data # ""
  THEN << [ r2_key            |-> task[1].ref_json_r2_key,
            logical_path      |-> [file.logical_path EXCEPT !.ext = @ \o ".ref.json"],
            file_name         |-> [file.file_name EXCEPT !.ext = @ \o ".ref.json"],
            file_size         |-> 2,
            content_type      |-> "application/json",
            processing_config |-> file.processing_config,
            source_file       |-> file.file_name,
            preprocessor_tags |-> <<"ImageProcessor">> ] >>
  ELSE <<file>>

(***************************************************************************)
(* The phase registry of the Durable Object: phases.get(status).           *)
(***************************************************************************)
discover(phase, files) ==
  IF phase = "TIFF_CONVERSION" THEN TiffDiscover(files) ELSE ImageDiscover(files)

executeBatch(phase, state, cfg, fulfilled) ==
  IF phase = "TIFF_CONVERSION" THEN TiffExecuteBatch(state, cfg, fulfilled)
  ELSE ImageExecuteBatch(state, cfg, fulfilled)

phaseHandleCallback(phase, state, i, result) ==
  IF phase = "TIFF_CONVERSION" THEN TiffHandleCallback(state, i, result)
  ELSE ImageHandleCallback(state, i, result)

getNextPhase(phase) ==
  IF phase = "TIFF_CONVERSION" THEN TiffGetNextPhase ELSE ImageGetNextPhase

transformFile(phase, file, task) ==
  IF phase = "TIFF_CONVERSION" THEN TiffTransformFile(file, task)
  ELSE ImageTransformFile(file, task)

\* What the worker spawned for a task posts back: by the kind of its task id.
WorkerResults(taskId) ==
  IF taskId[1] = "tiff" THEN TiffResults(taskId[2]) ELSE ImageResults(taskId[2])

(***************************************************************************)
(* PreprocessingDurableObject: the helpers of the operations.  An          *)
(* operation's outcome is a record: the state it persisted last, the       *)
(* state it leaves in memory, the alarm, where it stands (pc), and how     *)
(* often it transitioned.                                                  *)
(***************************************************************************)
Bump(n) == Min(n + 1, CountCap)

\* taskMap.get(file.r2_key): the Map keeps the last task inserted for a key.
TaskForFile(tasks, r2_key) ==
  LET hits == {i \in DOMAIN tasks : tasks[i].input_r2_key = r2_key}
  IN IF hits = {} THEN <<>>
     ELSE <<tasks[CHOOSE i \in hits : \A j \in hits : j <= i]>>

\* Variant: a file without a task is left out of the new list.
applyPhaseTransformations_taskedOnly(state, phase) ==
  FlatMap(LAMBDA file :
            IF TaskForFile(state.current_phase_tasks, file.r2_key) = <<>> THEN <<>>
            ELSE transformFile(phase, file, TaskForFile(state.current_phase_tasks, file.r2_key)),
          state.current_file_list)

applyPhaseTransformations(state, phase) ==
  FlatMap(LAMBDA file :
            transformFile(phase, file, TaskForFile(state.current_phase_tasks, file.r2_key)),
          state.current_file_list)

\* Variant: the delivery is sent without DONE having been persisted.
finalizeBatch_keepsStatus(state, al) ==
  [state |-> state, memory |-> state, alarm |-> al, pc |-> "delivering", calls |-> 0]

\* finalizeBatch up to its fetch: DONE is persisted, the alarm is not touched.
finalizeBatch(state, al) ==
  [ state |-> [state EXCEPT !.status = "DONE"], memory |-> [state EXCEPT !.status = "DONE"],
    alarm |-> al, pc |-> "delivering", calls |-> 0 ]

\* Variant: the catch branch records the message and leaves the status DONE.
deliveryFailed_keepsDone(state) ==
  [state EXCEPT !.error = <<"Worker callback failed">>]

\* The catch branch of finalizeBatch.
deliveryFailed(state) ==
  [state EXCEPT !.status = "ERROR", !.error = <<"Worker callback failed">>]

\* Variant: the counters of the completed phase are carried into the next.
enterPhase_keepsCounters(transformed, nextStatus) ==
  LET tasks == discover(nextStatus, transformed.current_file_list)
  IN [ transformed EXCEPT
         !.status = nextStatus,
         !.current_phase_tasks = fromEntries(tasks),
         !.tasks_total = Len(tasks),
         !.phase_retry_count = 0 ]

\* transitionToNextPhase's else branch up to its saveState: the state on
\* entering nextStatus with the transformed file list.
enterPhase(transformed, nextStatus) ==
  LET tasks == discover(nextStatus, transformed.current_file_list)
  IN [ transformed EXCEPT
         !.status = nextStatus,
         !.current_phase_tasks = fromEntries(tasks),
         !.tasks_total = Len(tasks),
         !.tasks_completed = 0,
         !.tasks_failed = 0,
         !.phase_retry_count = 0 ]

\* Variant: the batch is finalized with the file list as the phase found it.
transitionToNextPhase_keepsList(state, al, completedPhase) ==
  [finalizeBatch(state, al) EXCEPT !.calls = 1]

RECURSIVE transitionToNextPhase(_, _, _)
transitionToNextPhase(state, al, completedPhase) ==
  LET transformed ==
        [state EXCEPT !.current_file_list = applyPhaseTransformations(state, completedPhase)]
      nextStatus == getNextPhase(completedPhase)
      tasks == discover(nextStatus, transformed.current_file_list)
      entered == enterPhase(transformed, nextStatus)
      done ==
        IF nextStatus = "null" THEN finalizeBatch(transformed, al)
        ELSE IF Len(tasks) = 0 THEN transitionToNextPhase(entered, al, nextStatus)
        ELSE [state |-> entered, memory |-> entered, alarm |-> 1000, pc |-> "idle", calls |-> 0]
  IN [done EXCEPT !.calls = @ + 1]

\* Variant: the test is > where the code has >=.
retriesExhausted_offByOne(cfg, count) == count > cfg.MAX_RETRY_ATTEMPTS

\* handleError's test: give up when the incremented count reached the limit.
retriesExhausted(cfg, count) == count >= cfg.MAX_RETRY_ATTEMPTS

\* Variant: the backoff without its cap.
retryDelay_uncapped(cfg, count) == 1000 * Pow2(count)

\* handleError's backoff: Math.min(ALARM_DELAY_ERROR_RETRY, 1000 * 2 ** count)
retryDelay(cfg, count) == Min(cfg.ALARM_DELAY_ERROR_RETRY, 1000 * Pow2(count))

\* Variant: the retry branch saves the state before it counts the retry.
handleError_countsUnsaved(state, cfg) ==
  LET count == state.phase_retry_count + 1
      counted == [state EXCEPT !.phase_retry_count = count]
      givenUp == [counted EXCEPT !.status = "ERROR", !.error = <<"Failed after retries", count>>]
  IN IF retriesExhausted(cfg, count)
     THEN [ state |-> givenUp, memory |-> givenUp,
            alarm |-> NoAlarm, pc |-> "idle", calls |-> 0 ]
     ELSE [ state |-> state, memory |-> counted,
            alarm |-> retryDelay(cfg, count), pc |-> "idle", calls |-> 0 ]

handleError(state, cfg) ==
  LET count == state.phase_retry_count + 1
      counted == [state EXCEPT !.phase_retry_count = count]
      givenUp == [counted EXCEPT !.status = "ERROR", !.error = <<"Failed after retries", count>>]
  IN IF retriesExhausted(cfg, count)
     THEN [ state |-> givenUp, memory |-> givenUp,
            alarm |-> NoAlarm, pc |-> "idle", calls |-> 0 ]
     ELSE [ state |-> counted, memory |-> counted,
            alarm |-> retryDelay(cfg, count), pc |-> "idle", calls |-> 0 ]

\* Variant: alarm() leaves the timer as the firing left it, not armed.
nextAlarmDelay_notArmed(cfg, status) == NoAlarm

\* The delay alarm() re-arms with when executeBatch reports more work.
nextAlarmDelay(cfg, status) == cfg.ALARM_DELAY_TIFF_CONVERSION

\* Variant: the success branch without "phase_retry_count = 0".
alarmSucceeded_keepsCount(run, cfg, phase) ==
  IF run.more
  THEN [ state |-> run.state, memory |-> run.state,
         alarm |-> nextAlarmDelay(cfg, run.state.status), pc |-> "idle", calls |-> 0 ]
  ELSE transitionToNextPhase(run.state, NoAlarm, phase)

\* alarm()'s success branch, from the result of executeBatch.
alarmSucceeded(run, cfg, phase) ==
  LET saved == [run.state EXCEPT !.phase_retry_count = 0]
  IN IF run.more
     THEN [ state |-> saved, memory |-> saved,
            alarm |-> nextAlarmDelay(cfg, saved.status), pc |-> "idle", calls |-> 0 ]
     ELSE transitionToNextPhase(saved, NoAlarm, phase)

\* The state executeBatch leaves in memory when it throws: at its entry, or
\* after its timeout check has run.
thrownState(phase, state, cfg, point) ==
  IF point = "entry" THEN state
  ELSE IF phase = "TIFF_CONVERSION"
       THEN TiffCheckTimeouts(state, cfg.TASK_TIMEOUT_TIFF_CONVERSION)
       ELSE IF Len(PendingSlice(state.current_phase_tasks, cfg.BATCH_SIZE_IMAGE_PROCESSING)) = 0
               /\ ~allDone(state.current_phase_tasks)
            THEN ImageCheckTimeouts(state, cfg.TASK_TIMEOUT_IMAGE_PROCESSING)
            ELSE state

\* Variants of the idempotency check: only a finished batch counts as started;
\* only a batch in a phase does; every stored batch does, an ERROR one too.
alreadyStarted_onlyDone(state) == Exists(state) /\ state.status = "DONE"
alreadyStarted_inPhase(state) == Exists(state) /\ state.status \in Phases
alreadyStarted_anyState(state) == Exists(state)

\* startBatch's idempotency check.
alreadyStarted(state) == Exists(state) /\ state.status # "ERROR"

\* startBatch past the idempotency check.
initialState(queueMessage) ==
  LET initialFiles == InitialFiles(queueMessage)
      tasks == discover("TIFF_CONVERSION", initialFiles)
  IN [ status |-> "TIFF_CONVERSION",
       current_file_list |-> initialFiles,
       current_phase_tasks |-> fromEntries(tasks),
       tasks_total |-> Len(tasks),
       tasks_completed |-> 0,
       tasks_failed |-> 0,
       error |-> <<>>,
       phase_retry_count |-> 0 ]

\* Variant: the first alarm is armed before the number of tasks is looked at.
startFresh_armsFirst(queueMessage, al) ==
  LET state == initialState(queueMessage)
  IN IF Len(discover("TIFF_CONVERSION", InitialFiles(queueMessage))) = 0
     THEN finalizeBatch(state, 1000)
     ELSE [state |-> state, memory |-> state, alarm |-> 1000, pc |-> "idle", calls |-> 0]

startFresh(queueMessage, al) ==
  LET state == initialState(queueMessage)
  IN IF Len(discover("TIFF_CONVERSION", InitialFiles(queueMessage))) = 0
     THEN finalizeBatch(state, al)
     ELSE [state |-> state, memory |-> state, alarm |-> 1000, pc |-> "idle", calls |-> 0]

\* Variant: the callback records the result and leaves the transition to the next tick.
callbackApplied_waitsForTick(state, al, i, result) ==
  [ state |-> phaseHandleCallback(state.status, state, i, result),
    memory |-> phaseHandleCallback(state.status, state, i, result),
    alarm |-> al, pc |-> "idle", calls |-> 0 ]

\* handleCallback past its lookups: i is the index of the task found.
callbackApplied(state, al, i, result) ==
  LET saved == phaseHandleCallback(state.status, state, i, result)
  IN IF allDone(saved.current_phase_tasks)
     THEN transitionToNextPhase(saved, al, state.status)
     ELSE [state |-> saved, memory |-> saved, alarm |-> al, pc |-> "idle", calls |-> 0]

\* Variant: the reset also discards the tasks of the phase.
resetState_clearsTasks(state) ==
  IF Exists(state)
  THEN [ state EXCEPT !.status = "ERROR", !.error = <<"Manually reset by admin">>,
                      !.current_phase_tasks = <<>> ]
  ELSE state

\* reset(): deleteAlarm, then force ERROR on the stored state, if there is one.
resetState(state) ==
  IF Exists(state)
  THEN [state EXCEPT !.status = "ERROR", !.error = <<"Manually reset by admin">>]
  ELSE state

\* Variant: a callback for a batch that is not in a phase is applied by the
\* phase that ran last.
callbackThrows_appliesWhenClosed(state, taskId) ==
  \/ ~Exists(state)
  \/ ~HasTask(state.current_phase_tasks, taskId)

\* handleCallback throws before it changes anything: no batch, no such task,
\* or (status DONE or ERROR) no phase registered for the status.
callbackThrows(state, taskId) ==
  \/ ~Exists(state)
  \/ ~HasTask(state.current_phase_tasks, taskId)
  \/ state.status \notin Phases

(***************************************************************************)
(* The clock.  Only alarm() reads Date.now() (the timeout check of         *)
(* executeBatch), so time passes where an alarm fires: the alarm's delay   *)
(* plus the time the firing is late.  checkTimeouts reads started_at of    *)
(* processing tasks only, so a task's elapsed time is kept while it is     *)
(* processing, and no further than the first value beyond every timeout.   *)
(***************************************************************************)
ElapsedCap(cfg) == Max(cfg.TASK_TIMEOUT_TIFF_CONVERSION, cfg.TASK_TIMEOUT_IMAGE_PROCESSING) + 1

Aged(task, ms, cfg) ==
  IF task.status = "processing" /\ task.started_ago # NoTime
  THEN [task EXCEPT !.started_ago = Min(@ + ms, ElapsedCap(cfg))]
  ELSE task

AgedState(state, ms, cfg) ==
  [state EXCEPT !.current_phase_tasks = [i \in DOMAIN @ |-> Aged(@[i], ms, cfg)]]

\* A clock that is no longer read is kept at 0.
Stopped(state) ==
  [ state EXCEPT
      !.current_phase_tasks =
        [ i \in DOMAIN @ |->
            IF @[i].status # "processing" /\ @[i].started_ago # NoTime
            THEN [@[i] EXCEPT !.started_ago = 0] ELSE @[i] ] ]

\* How late an alarm may fire.
Lateness == {0, TimeStep}

(***************************************************************************)
(* Initial state: the Durable Object of a batch id that was never started. *)
(***************************************************************************)
Init ==
  /\ env \in Envs
  /\ storage = NoState
  /\ alarm = NoAlarm
  /\ pc = "idle"
  /\ machines = {}
  /\ last_op = "none"
  /\ transitions = 0
  /\ deliveries = 0
  /\ failed_ticks = 0
  /\ retry_before = 0
  /\ sent = <<>>
  /\ memory = storage

\* An operation's outcome becomes the state of the object.
\* finalizeBatch's request body: processedFiles = this.state.current_file_list,
\* read after DONE was saved.
processedFiles(state) == state.current_file_list

\* The request body of the run after an operation with this outcome.
Delivered(outcome, before) ==
  IF outcome.pc = "delivering" THEN <<processedFiles(outcome.state)>> ELSE before

Becomes(outcome) ==
  /\ storage' = Stopped(outcome.state)
  /\ memory' = Stopped(outcome.memory)
  /\ alarm' = outcome.alarm
  /\ pc' = outcome.pc
  /\ deliveries' = IF outcome.pc = "delivering" THEN Bump(deliveries) ELSE deliveries

(***************************************************************************)
(* startBatch(queueMessage)                                                *)
(***************************************************************************)
\* The message of a duplicate start is not read.
StartDuplicate ==
  /\ pc = "idle"
  /\ alreadyStarted(storage)
  /\ last_op' = "start:duplicate"
  /\ memory' = storage
  /\ UNCHANGED <<env, storage, alarm, pc, machines, transitions, deliveries, failed_ticks, retry_before, sent>>

StartFresh(queueMessage) ==
  /\ pc = "idle"
  /\ ~alreadyStarted(storage)
  /\ Becomes(startFresh(queueMessage, alarm))
  /\ sent' = Delivered(startFresh(queueMessage, alarm), <<>>)
  /\ last_op' = "start:fresh"
  /\ transitions' = 0
  /\ failed_ticks' = 0
  /\ retry_before' = 0
  /\ UNCHANGED <<env, machines>>

(***************************************************************************)
(* alarm(): the armed alarm is due and fires; a firing alarm is no longer  *)
(* armed unless the handler arms it again.                                 *)
(***************************************************************************)
AlarmDue == pc = "idle" /\ alarm # NoAlarm

\* The stored state as the handler reads it, late ms after the alarm's time.
AtAlarm(late) == AgedState(storage, alarm + late, config)

AlarmIdle ==
  /\ AlarmDue
  /\ ~Exists(storage) \/ Terminal(storage)
  /\ alarm' = NoAlarm
  /\ last_op' = "alarm:terminal"
  /\ memory' = storage
  /\ UNCHANGED <<env, storage, pc, machines, transitions, deliveries, failed_ticks, retry_before, sent>>

\* The tasks whose spawn may succeed.
Spawnable(state) == DOMAIN state.current_phase_tasks

AlarmRun(late, fulfilled) ==
  /\ AlarmDue
  /\ Exists(storage) /\ ~Terminal(storage)
  /\ \E run \in {executeBatch(storage.status, AtAlarm(late), config, fulfilled)} :
     \E outcome \in {alarmSucceeded(run, config, storage.status)} :
        /\ Becomes(outcome)
        /\ machines' = machines \cup {storage.current_phase_tasks[i].task_id : i \in run.spawned}
        /\ transitions' = Min(transitions + outcome.calls, CountCap)
        /\ last_op' = IF run.more THEN "alarm:more" ELSE "alarm:complete"
        /\ sent' = Delivered(outcome, sent)
  /\ failed_ticks' = 0
  /\ retry_before' = storage.phase_retry_count
  /\ UNCHANGED env

AlarmThrow(late, point) ==
  /\ AlarmDue
  /\ Exists(storage) /\ ~Terminal(storage)
  /\ \E outcome \in {handleError(thrownState(storage.status, AtAlarm(late), config, point), config)} :
        /\ Becomes(outcome)
        /\ last_op' = IF outcome.state.status = "ERROR" THEN "alarm:giveup" ELSE "alarm:retry"
  /\ failed_ticks' = failed_ticks + 1
  /\ retry_before' = storage.phase_retry_count
  /\ UNCHANGED <<env, machines, transitions, sent>>

(***************************************************************************)
(* handleCallback(taskId, result): a spawned worker posts its one result.  *)
(***************************************************************************)
Posted(taskId) ==
  /\ pc = "idle"
  /\ taskId \in machines
  /\ machines' = machines \ {taskId}

Callback(taskId, result) ==
  /\ Posted(taskId)
  /\ ~callbackThrows(storage, taskId)
  /\ LET i == TaskIndex(storage.current_phase_tasks, taskId)
         outcome == callbackApplied(storage, alarm, i, result)
     IN /\ Becomes(outcome)
        /\ transitions' = Min(transitions + outcome.calls, CountCap)
        /\ last_op' = IF outcome.calls > 0 THEN "callback:complete" ELSE "callback:more"
        /\ sent' = Delivered(outcome, sent)
  /\ UNCHANGED <<env, failed_ticks, retry_before>>

CallbackRejected(taskId) ==
  /\ Posted(taskId)
  /\ callbackThrows(storage, taskId)
  /\ last_op' = "callback:throws"
  /\ memory' = storage
  /\ UNCHANGED <<env, storage, alarm, pc, transitions, deliveries, failed_ticks, retry_before, sent>>

\* A callback request for a task id that no discovery produced.
CallbackUnknown ==
  /\ pc = "idle"
  /\ callbackThrows(storage, UnknownTaskId)
  /\ last_op' = "callback:unknown"
  /\ memory' = storage
  /\ UNCHANGED <<env, storage, alarm, pc, machines, transitions, deliveries, failed_ticks, retry_before, sent>>

(***************************************************************************)
(* finalizeBatch: the response of the delivery fetch.                      *)
(***************************************************************************)
DeliveryOk ==
  /\ pc = "delivering"
  /\ pc' = "idle"
  /\ last_op' = "delivery:ok"
  /\ UNCHANGED <<env, storage, alarm, machines, transitions, deliveries, failed_ticks, retry_before, sent, memory>>

DeliveryFail ==
  /\ pc = "delivering"
  /\ storage' = deliveryFailed(storage)
  /\ memory' = deliveryFailed(memory)
  /\ alarm' = NoAlarm
  /\ pc' = "idle"
  /\ last_op' = "delivery:failed"
  /\ UNCHANGED <<env, machines, transitions, deliveries, failed_ticks, retry_before, sent>>

(***************************************************************************)
(* reset()                                                                 *)
(***************************************************************************)
Reset ==
  /\ pc = "idle"
  /\ storage' = resetState(storage)
  /\ memory' = resetState(storage)
  /\ alarm' = NoAlarm
  /\ last_op' = "reset"
  /\ UNCHANGED <<env, pc, machines, transitions, deliveries, failed_ticks, retry_before, sent>>

Next ==
  \/ StartDuplicate
  \/ \E queueMessage \in QueueMessages : StartFresh(queueMessage)
  \/ AlarmIdle
  \/ \E late \in Lateness : \E fulfilled \in SUBSET Spawnable(storage) : AlarmRun(late, fulfilled)
  \/ \E late \in Lateness : \E point \in {"entry", "timeouts"} : AlarmThrow(late, point)
  \/ \E taskId \in TaskIds : \E result \in WorkerResults(taskId) : Callback(taskId, result)
  \/ \E taskId \in TaskIds : CallbackRejected(taskId)
  \/ CallbackUnknown
  \/ DeliveryOk
  \/ DeliveryFail
  \/ Reset

Spec == Init /\ [][Next]_vars

(***************************************************************************)
(* The phases on their own.  Both phases are registered (batch-do.ts:40-43)*)
(* but no getNextPhase names IMAGE_PROCESSING, so no run of Spec enters    *)
(* it.  PhaseSpec runs the ticks and callbacks of either phase from the    *)
(* state the batch has on entering it, with the first alarm armed:         *)
(* TIFF_CONVERSION as startBatch persists it, IMAGE_PROCESSING as          *)
(* transitionToNextPhase persists it over the file list of a conversion    *)
(* in which every TIFF was converted.                                      *)
(***************************************************************************)
TiffSuccess(input_r2_key) ==
  CHOOSE r \in TiffResults(input_r2_key) : r.status = "success" /\ r.output_r2_key # ""

\* The first n tasks of a TIFF_CONVERSION state, completed by their workers.
RECURSIVE Converted(_, _)
Converted(state, n) ==
  IF n = 0 THEN state
  ELSE TiffHandleCallback(Converted(state, n - 1), n,
                          TiffSuccess(state.current_phase_tasks[n].input_r2_key))

ImageEntered(queueMessage) ==
  LET started == initialState(queueMessage)
      converted == Converted(started, Len(started.current_phase_tasks))
      transformed ==
        [ converted EXCEPT
            !.current_file_list = applyPhaseTransformations(converted, "TIFF_CONVERSION") ]
  IN enterPhase(transformed, "IMAGE_PROCESSING")

PhaseEntries ==
  { st \in {initialState(m) : m \in QueueMessages} \cup {ImageEntered(m) : m \in QueueMessages} :
      st.tasks_total > 0 }

InitPhase ==
  /\ env \in Envs
  /\ storage \in PhaseEntries
  /\ alarm = 1000
  /\ pc = "idle"
  /\ machines = {}
  /\ last_op = "none"
  /\ transitions = 0
  /\ deliveries = 0
  /\ failed_ticks = 0
  /\ retry_before = 0
  /\ sent = <<>>
  /\ memory = storage

NextPhase ==
  \/ AlarmIdle
  \/ \E late \in Lateness : \E fulfilled \in SUBSET Spawnable(storage) : AlarmRun(late, fulfilled)
  \/ \E late \in Lateness : \E point \in {"entry", "timeouts"} : AlarmThrow(late, point)
  \/ \E taskId \in TaskIds : \E result \in WorkerResults(taskId) : Callback(taskId, result)
  \/ \E taskId \in TaskIds : CallbackRejected(taskId)
  \/ DeliveryOk
  \/ DeliveryFail

PhaseSpec == InitPhase /\ [][NextPhase]_vars

(***************************************************************************)
(* The runs in which every dispatch succeeds, no worker ever calls back    *)
(* and every delivery succeeds.  An armed alarm fires (the platform runs   *)
(* alarm() at least once per armed alarm) and an awaited fetch returns.    *)
(***************************************************************************)
QuietTick == \E late \in Lateness : AlarmRun(late, Spawnable(storage))

NextQuiet ==
  \/ StartDuplicate
  \/ \E queueMessage \in QueueMessages : StartFresh(queueMessage)
  \/ QuietTick
  \/ DeliveryOk

QuietSpec == Init /\ [][NextQuiet]_vars /\ WF_vars(QuietTick) /\ WF_vars(DeliveryOk)

(***************************************************************************)
(* The runs of a phase under fair timer firing alone: an armed alarm fires *)
(* and alarm() runs, whatever the dispatches and the workers do.           *)
(***************************************************************************)
Tick ==
  \/ AlarmIdle
  \/ \E late \in Lateness : \E fulfilled \in SUBSET Spawnable(storage) : AlarmRun(late, fulfilled)
  \/ \E late \in Lateness : \E point \in {"entry", "timeouts"} : AlarmThrow(late, point)

FairPhaseSpec == InitPhase /\ [][NextPhase]_vars /\ WF_vars(Tick)

(***************************************************************************)
(* Properties.  An operation boundary is a state with pc = "idle".  The    *)
(* operation that led to a state is read from last_op.                     *)
(***************************************************************************)
StartOps == {"start:duplicate", "start:fresh"}
TickOkOps == {"alarm:more", "alarm:complete"}
TickFailOps == {"alarm:retry", "alarm:giveup"}

\* C1: at an operation boundary a batch whose persisted status is DONE or
\* ERROR has no armed timer, whichever path led to the terminal status.
\* Refuted: a callback that resolves the last task finalizes the batch and
\* leaves the alarm of the previous tick armed.
C1_TerminalHasNoTimer ==
  (pc = "idle" /\ Terminal(storage)) => alarm = NoAlarm

\* C2: tasks_completed + tasks_failed <= tasks_total in every reachable state.
\* Refuted: the callback of a task that a tick already failed by timeout is
\* counted a second time.
C2_CountersWithinTotal ==
  storage.tasks_completed + storage.tasks_failed <= storage.tasks_total

\* C3: the phase transition of a run is executed exactly once, however the
\* tasks are resolved (callbacks, timeouts, a mix) and in whatever order ticks
\* and callbacks are processed: never twice; not while the batch is in its
\* phase; once when a batch that had tasks is DONE; and only with every task
\* resolved.  (A start that discovers no task finalizes without a transition.)
C3_TransitionOncePerRun ==
  /\ transitions <= 1
  /\ storage.status \in Phases => transitions = 0
  /\ (storage.status = "DONE" /\ storage.tasks_total > 0) => transitions = 1
  /\ transitions = 1 => allDone(storage.current_phase_tasks)

\* C3 witness: a finished run in which one task timed out at a tick and
\* another was completed by its callback.
C3_Witness ==
  /\ storage.status = "DONE"
  /\ transitions = 1
  /\ \E i \in DOMAIN storage.current_phase_tasks :
       /\ storage.current_phase_tasks[i].status = "failed"
       /\ storage.current_phase_tasks[i].error = "timed out"
  /\ \E j \in DOMAIN storage.current_phase_tasks :
       storage.current_phase_tasks[j].status = "completed"

\* C4: startBatch on a stored state whose status is not ERROR changes nothing:
\* status, tasks, counters, file list, phase_retry_count and the armed timer
\* are as before.
C4_DuplicateStartIsNoOp ==
  [][ (last_op' \in StartOps /\ Exists(storage) /\ storage.status # "ERROR")
        => (storage' = storage /\ alarm' = alarm /\ pc' = pc) ]_vars

\* C4 witness: a duplicate start that found a batch with progress made and a
\* timer armed.
C4_Witness ==
  /\ last_op = "start:duplicate"
  /\ storage.status \in Phases
  /\ storage.tasks_completed > 0
  /\ alarm # NoAlarm

\* C5 as stated: once the status is ERROR, no start, tick or callback changes
\* it or arms a timer.  Refuted by a start, which re-initialises an ERROR batch.
C5_ErrorAbsorbing ==
  [][ (storage.status = "ERROR" /\ last_op' # "reset")
        => (storage'.status = "ERROR" /\ alarm' = NoAlarm) ]_vars

\* C5 amended: once the status is ERROR, no tick or callback (nor a reset)
\* changes it or arms a timer; a start, first or redelivered, re-initialises
\* the batch: it enters the first phase, or DONE when no task is discovered,
\* with its counters and phase_retry_count at zero and no error message.
C5_ErrorLeftOnlyByStart ==
  [][ storage.status = "ERROR"
        => IF last_op' \in StartOps
           THEN /\ storage'.status \in {"TIFF_CONVERSION", "DONE"}
                /\ storage'.tasks_completed = 0
                /\ storage'.tasks_failed = 0
                /\ storage'.phase_retry_count = 0
                /\ storage'.error = <<>>
           ELSE storage'.status = "ERROR" /\ alarm' = NoAlarm ]_vars

\* C5 witness: a worker's callback was rejected by a batch in ERROR.
C5_Witness ==
  storage.status = "ERROR" /\ last_op = "callback:throws"

\* C6 as stated: a persisted DONE is changed by the administrative reset only.
\* Refuted inside finalizeBatch: DONE is persisted before the delivery, and a
\* failed delivery overwrites it with ERROR.
C6_DoneStaysDone ==
  [][ (storage.status = "DONE" /\ last_op' # "reset") => storage'.status = "DONE" ]_vars

\* C6 amended: a persisted DONE is left only for ERROR, and only by the
\* administrative reset or by the failure of the delivery of the finalization
\* that persisted it; once that finalization has returned, DONE stays DONE
\* under every start, tick and callback.
C6_DoneLeftOnlyByResetOrFailedDelivery ==
  [][ (storage.status = "DONE" /\ storage'.status # "DONE")
        => /\ storage'.status = "ERROR"
           /\ \/ last_op' = "reset"
              \/ pc = "delivering" /\ last_op' = "delivery:failed" ]_vars

\* C6 witness: a redelivered start found the batch DONE.
C6_Witness ==
  storage.status = "DONE" /\ pc = "idle" /\ last_op = "start:duplicate"

\* C7 as stated (its last part): the delivery is attempted at most once per
\* batch id.  Refuted: a start that finds the batch in ERROR runs it again,
\* and that run delivers again.
C7_DeliveryAtMostOnce ==
  deliveries <= 1

\* C7 amended: a failed delivery leaves the batch in ERROR with an error
\* message and no timer; while the batch is in ERROR no tick or callback
\* attempts a delivery, only a start (which re-initialises the batch) leads to
\* another; and a delivery is attempted only by the step that turns the status
\* to DONE.
C7_FailedDeliveryIsTerminal ==
  [][ /\ last_op' = "delivery:failed"
        => /\ storage'.status = "ERROR"
           /\ storage'.error = <<"Worker callback failed">>
           /\ alarm' = NoAlarm
           /\ pc' = "idle"
      /\ (storage.status = "ERROR" /\ last_op' \notin StartOps)
        => (pc' = "idle" /\ deliveries' = deliveries)
      /\ (pc = "idle" /\ pc' = "delivering")
        => (storage.status # "DONE" /\ storage'.status = "DONE") ]_vars

\* C7 witness: after a failed delivery, a late callback reached the batch.
C7_Witness ==
  /\ storage.status = "ERROR"
  /\ storage.error = <<"Worker callback failed">>
  /\ alarm = NoAlarm
  /\ last_op = "callback:throws"

\* C8: with MAX_RETRY_ATTEMPTS = N, after the N-th consecutive throwing tick
\* the status is ERROR, no timer is armed and the error message carries N;
\* after fewer the status is still the phase's and a timer is armed; and a
\* batch is in ERROR through phase failure only after N consecutive throws.
C8_ErrorAfterMaxRetries ==
  LET N == config.MAX_RETRY_ATTEMPTS
  IN /\ last_op \in TickFailOps =>
          /\ failed_ticks \in 1..N
          /\ failed_ticks = N =>
               /\ storage.status = "ERROR"
               /\ alarm = NoAlarm
               /\ storage.error = <<"Failed after retries", N>>
          /\ failed_ticks < N =>
               /\ storage.status \in Phases
               /\ alarm # NoAlarm
               /\ storage.error = <<>>
     /\ (storage.status = "ERROR" /\ Len(storage.error) = 2) =>
          (failed_ticks = N /\ storage.error[2] = N)

\* C8 witness: the third consecutive throw, with MAX_RETRY_ATTEMPTS = 3.
C8_Witness ==
  /\ last_op = "alarm:giveup"
  /\ config.MAX_RETRY_ATTEMPTS = 3
  /\ failed_ticks = 3
  /\ storage.status = "ERROR"

\* C9: after a tick whose executeBatch returned, phase_retry_count is 0
\* whatever it was before; after a tick whose executeBatch threw, it is one
\* more than before.
C9_RetryCountResetsAndSteps ==
  /\ last_op \in TickOkOps => storage.phase_retry_count = 0
  /\ last_op \in TickFailOps => storage.phase_retry_count = retry_before + 1

\* C9 witness: a tick that succeeded after failed ticks, with work remaining.
C9_Witness ==
  /\ last_op = "alarm:more"
  /\ retry_before > 0
  /\ storage.phase_retry_count = 0

\* C10: a failing tick that does not exhaust the retries arms the timer with
\* min(ALARM_DELAY_ERROR_RETRY, 1000 * 2^k), k the incremented count: the cap
\* when 1000 * 2^k >= cap, 1000 * 2^k below it, and never less than the delay
\* of the failure before.
C10_BackoffDelay ==
  [][ last_op' = "alarm:retry"
        => LET k == storage'.phase_retry_count
               cap == config.ALARM_DELAY_ERROR_RETRY
           IN /\ alarm' = IF 1000 * 2^k >= cap THEN cap ELSE 1000 * 2^k
              /\ storage.phase_retry_count > 0 => alarm' >= alarm ]_vars

\* C10 witness: a retry whose uncapped delay exceeds the cap, after an earlier
\* retry.
C10_Witness ==
  /\ last_op = "alarm:retry"
  /\ retry_before > 0
  /\ 1000 * 2^storage.phase_retry_count > config.ALARM_DELAY_ERROR_RETRY
  /\ alarm = config.ALARM_DELAY_ERROR_RETRY

CallbackOps == {"callback:complete", "callback:more", "callback:throws", "callback:unknown"}

\* The task timeout and the batch size the configuration gives a phase.
phaseTimeout(cfg, phase) ==
  IF phase = "TIFF_CONVERSION" THEN cfg.TASK_TIMEOUT_TIFF_CONVERSION
  ELSE cfg.TASK_TIMEOUT_IMAGE_PROCESSING

phaseBatchSize(cfg, phase) ==
  IF phase = "TIFF_CONVERSION" THEN cfg.BATCH_SIZE_TIFF_CONVERSION
  ELSE cfg.BATCH_SIZE_IMAGE_PROCESSING

\* The phase a task belongs to, by the kind of its identifier.
PhaseOfTask(task) ==
  IF task.task_id[1] = "tiff" THEN "TIFF_CONVERSION" ELSE "IMAGE_PROCESSING"

FailedTasks(tasks) == {i \in DOMAIN tasks : tasks[i].status = "failed"}

\* C11: in either phase, an executeBatch call that returns leaves no task
\* processing whose elapsed time exceeds the phase's timeout, also when other
\* tasks are pending at that call.  Refuted for IMAGE_PROCESSING, whose
\* executeBatch checks timeouts only when no task is pending.
C11_TimeoutsReconciledEveryTick ==
  (last_op \in TickOkOps /\ storage.status \in Phases) =>
     \A i \in DOMAIN storage.current_phase_tasks :
        ~ ( /\ storage.current_phase_tasks[i].status = "processing"
            /\ storage.current_phase_tasks[i].started_ago > phaseTimeout(config, storage.status) )

\* C12: a tick adds to tasks_failed exactly the tasks it turns from processing
\* to failed, and leaves every task that is already failed as it is: a
\* timed-out task is counted by the tick that fails it and by no later one.
C12_TimeoutCountedOnce ==
  [][ last_op' \in TickOkOps \cup TickFailOps
        => LET old == storage.current_phase_tasks
               new == storage'.current_phase_tasks
           IN /\ DOMAIN new = DOMAIN old
              /\ storage'.tasks_failed = storage.tasks_failed
                   + Cardinality({i \in DOMAIN old :
                                    old[i].status = "processing" /\ new[i].status = "failed"})
              /\ \A i \in DOMAIN old : old[i].status = "failed" => new[i] = old[i] ]_vars

\* C12 witness: with one dispatch per tick, two tasks that timed out (at
\* different ticks) and are counted twice in all.
C12_Witness ==
  /\ config.BATCH_SIZE_TIFF_CONVERSION = 1
  /\ Len(storage.current_phase_tasks) = 2
  /\ \A i \in DOMAIN storage.current_phase_tasks :
       /\ storage.current_phase_tasks[i].status = "failed"
       /\ storage.current_phase_tasks[i].error = "timed out"
  /\ storage.tasks_failed = 2
  /\ storage.tasks_completed = 0

\* A delivered batch whose tasks all failed by timeout and whose file list is
\* the one a start builds from its queue message.
FinishedByTimeouts ==
  /\ storage.status = "DONE"
  /\ pc = "idle"
  /\ transitions = 1
  /\ \A i \in DOMAIN storage.current_phase_tasks :
       /\ storage.current_phase_tasks[i].status = "failed"
       /\ storage.current_phase_tasks[i].error = "timed out"
  /\ storage.current_file_list \in {InitialFiles(m) : m \in QueueMessages}

\* C13: when every dispatch succeeds and no callback arrives, a batch in its
\* phase eventually is DONE with every task failed by timeout and the file
\* list as the start built it; no tick leaves every task resolved without
\* transitioning; and the file list of a batch in its phase does not change.
C13_TimeoutsFinishTheBatch ==
  /\ (storage.status \in Phases) ~> FinishedByTimeouts
  /\ [](last_op = "alarm:more" => ~allDone(storage.current_phase_tasks))
  /\ [][storage.status \in Phases => storage'.current_file_list = storage.current_file_list]_vars

\* C13 witness: a batch of two tasks that was finished by timeouts alone.
C13_Witness ==
  /\ storage.status = "DONE"
  /\ pc = "idle"
  /\ Len(storage.current_phase_tasks) = 2
  /\ storage.tasks_failed = 2
  /\ \A i \in DOMAIN storage.current_phase_tasks :
       storage.current_phase_tasks[i].error = "timed out"

\* C14: a callback after which every task is completed or failed runs the
\* phase transition within the same operation (here: to DONE, with the
\* delivery under way); a callback after which a task is still pending or
\* processing runs no transition and leaves the status as it was.
C14_CallbackTransitionsAtOnce ==
  [][ last_op' \in {"callback:complete", "callback:more"}
        => IF allDone(storage'.current_phase_tasks)
           THEN /\ transitions' = transitions + 1
                /\ storage'.status = "DONE"
                /\ pc' = "delivering"
           ELSE /\ transitions' = transitions
                /\ storage'.status = storage.status
                /\ pc' = "idle" ]_vars

\* C14 witness: the callback of the last task finalized the batch while the
\* alarm of the previous tick was still armed.
C14_Witness ==
  /\ last_op = "callback:complete"
  /\ storage.status = "DONE"
  /\ pc = "delivering"
  /\ alarm # NoAlarm
  /\ Len(storage.current_phase_tasks) = 2

\* C15: a callback for a batch without persisted state, or for a task id
\* that is no key of current_phase_tasks, throws and leaves the persisted
\* state and the timer as they were.
C15_UnknownCallbackRejected ==
  [][ last_op' \in CallbackOps
        => LET posted == IF machines' = machines THEN UnknownTaskId
                         ELSE CHOOSE t \in machines \ machines' : TRUE
           IN ( \/ ~Exists(storage)
                \/ \A i \in DOMAIN storage.current_phase_tasks :
                     storage.current_phase_tasks[i].task_id # posted )
              => ( /\ last_op' \in {"callback:throws", "callback:unknown"}
                   /\ storage' = storage
                   /\ alarm' = alarm
                   /\ pc' = pc ) ]_vars

\* C15 witness: the worker of an earlier run called back into a batch that is
\* in its phase and has no task of that id.
C15_Witness ==
  /\ last_op = "callback:throws"
  /\ storage.status \in Phases
  /\ storage.current_phase_tasks # <<>>
  /\ alarm # NoAlarm

\* C16: a start that discovers no task finalizes within the start: the batch
\* is DONE with tasks_total = 0 and the initial file list, no timer is armed
\* before, by or after it, and a successful delivery leaves all that as it is.
C16_ZeroTaskStartFinalizes ==
  [][ /\ (last_op' = "start:fresh" /\ storage'.tasks_total = 0)
        => /\ storage'.status = "DONE"
           /\ pc' = "delivering"
           /\ transitions' = 0
           /\ alarm = NoAlarm
           /\ alarm' = NoAlarm
           /\ storage'.current_phase_tasks = <<>>
           /\ \E m \in QueueMessages : storage'.current_file_list = InitialFiles(m)
      /\ (last_op' = "delivery:ok" /\ storage.tasks_total = 0)
        => /\ storage' = storage
           /\ storage'.status = "DONE"
           /\ alarm' = NoAlarm
           /\ pc' = "idle" ]_vars

\* C16 witness: a delivered batch of files none of which needed a task.
C16_Witness ==
  /\ last_op = "delivery:ok"
  /\ storage.status = "DONE"
  /\ storage.tasks_total = 0
  /\ Len(storage.current_file_list) > 0
  /\ alarm = NoAlarm

\* C17: task failures never put the batch in ERROR (an ERROR carries the
\* message of the retry limit, of the failed delivery or of the reset), and a
\* finished batch has tasks_failed equal to the number of its failed tasks.
\* Refuted in its count: the callback of a task already failed by timeout is
\* applied, so tasks_failed and the failed tasks drift apart.
C17_TaskFailuresCountedNotFatal ==
  /\ storage.status = "ERROR" =>
       storage.error \in { <<"Failed after retries", config.MAX_RETRY_ATTEMPTS>>,
                           <<"Worker callback failed">>,
                           <<"Manually reset by admin">> }
  /\ storage.status = "DONE" =>
       storage.tasks_failed = Cardinality(FailedTasks(storage.current_phase_tasks))

C19_ResetFrame ==
  [][ last_op' = "reset"
        => /\ alarm' = NoAlarm
           /\ IF Exists(storage)
              THEN /\ storage'.status = "ERROR"
                   /\ storage'.error # <<>>
                   /\ storage'.current_phase_tasks = storage.current_phase_tasks
                   /\ storage'.tasks_total = storage.tasks_total
                   /\ storage'.tasks_completed = storage.tasks_completed
                   /\ storage'.tasks_failed = storage.tasks_failed
                   /\ storage'.current_file_list = storage.current_file_list
                   /\ storage'.phase_retry_count = storage.phase_retry_count
              ELSE storage' = NoState ]_vars

\* C19 witness: a reset of a batch with a completed and a processing task.
C19_Witness ==
  /\ last_op = "reset"
  /\ storage.status = "ERROR"
  /\ storage.tasks_completed > 0
  /\ \E i \in DOMAIN storage.current_phase_tasks :
       storage.current_phase_tasks[i].status = "processing"

\* C20: in both phases transformFile returns the one-element list of the
\* original file for an absent task and for a task that is pending,
\* processing or failed.
C20_UnconvertedFilePassesThrough ==
  \A k \in DOMAIN storage.current_file_list :
     LET file == storage.current_file_list[k]
     IN /\ \A phase \in Phases : transformFile(phase, file, <<>>) = <<file>>
        /\ \A i \in DOMAIN storage.current_phase_tasks :
             LET task == storage.current_phase_tasks[i]
             IN task.status # "completed" =>
                  transformFile(PhaseOfTask(task), file, <<task>>) = <<file>>

\* C20 witness: an image phase with a failed and a processing task.
C20_Witness ==
  /\ storage.status = "IMAGE_PROCESSING"
  /\ \E i, j \in DOMAIN storage.current_phase_tasks :
       /\ storage.current_phase_tasks[i].status = "failed"
       /\ storage.current_phase_tasks[j].status = "processing"

\* The operations that ran a phase transition: the tick or the callback that
\* found every task resolved.
TransitionOps == {"alarm:complete", "callback:complete"}

RECURSIVE SumTo(_, _)
SumTo(f, n) == IF n = 0 THEN 0 ELSE f[n] + SumTo(f, n - 1)

\* A file of the new list comes from a file of the previous list: it is that
\* file (tags aside) or names it as its source_file.
Origin(newFile, oldFile) ==
  \/ /\ newFile.r2_key = oldFile.r2_key
     /\ newFile.file_name = oldFile.file_name
     /\ newFile.logical_path = oldFile.logical_path
  \/ newFile.source_file = oldFile.file_name

\* new is old with every file replaced, in place, by one or more files that
\* come from it.
InOrderOfInputs(old, new) ==
  \E cnt \in [DOMAIN old -> 1..Max(1, Len(new))] :
     /\ Len(new) = SumTo(cnt, Len(old))
     /\ \A i \in DOMAIN old :
          \A k \in 1..cnt[i] : Origin(new[SumTo(cnt, i - 1) + k], old[i])

\* C21: a phase transition omits no file: whatever the tasks' outcomes, the
\* new file list is the previous one with each file replaced, in place and in
\* order, by at least one file that comes from it, so it is never shorter.
C21_TransitionOmitsNoFile ==
  [][ last_op' \in TransitionOps
        => /\ Len(storage'.current_file_list) >= Len(storage.current_file_list)
           /\ InOrderOfInputs(storage.current_file_list, storage'.current_file_list) ]_vars

\* C21 witness: a transition with a converted file and a file whose task
\* failed: three files from two.
C21_Witness ==
  /\ last_op \in TransitionOps
  /\ storage.status = "DONE"
  /\ Len(storage.current_file_list) = 3
  /\ \E i, j \in DOMAIN storage.current_phase_tasks :
       /\ storage.current_phase_tasks[i].status = "completed"
       /\ storage.current_phase_tasks[j].status = "failed"

DistinctKeys(files) ==
  \A i, j \in DOMAIN files : i # j => files[i].r2_key # files[j].r2_key

CompletedTasks(tasks) == {t \in DOMAIN tasks : tasks[t].status = "completed"}

\* The completed tasks that carry the three output fields of a conversion.
ConvertedTasks(tasks) ==
  {t \in CompletedTasks(tasks) :
     /\ tasks[t].output_r2_key # ""
     /\ TruthyName(tasks[t].output_file_name)
     /\ tasks[t].output_file_size # 0}

\* new is old with the file of every task in done tagged as a source and
\* followed directly by the JPEG derived from it, and every other file as it was.
TiffListAfter(old, new, tasks, done) ==
  LET conv(i) == \E t \in done : tasks[t].input_r2_key = old[i].r2_key
      before(i) == Cardinality({j \in 1..(i - 1) : conv(j)})
  IN /\ Len(new) = Len(old) + Cardinality(done)
     /\ \A i \in DOMAIN old :
          LET p == i + before(i)
          IN /\ p <= Len(new)
             /\ IF conv(i)
                THEN /\ new[p] = [old[i] EXCEPT !.preprocessor_tags =
                                                 Append(@, "TiffConverter:source")]
                     /\ p + 1 <= Len(new)
                     /\ new[p + 1].source_file = old[i].file_name
                     /\ new[p + 1].content_type = "image/jpeg"
                     /\ new[p + 1].preprocessor_tags = <<"TiffConverter">>
                     /\ \E t \in done : new[p + 1].r2_key = tasks[t].output_r2_key
                ELSE new[p] = old[i]

\* The TIFF_CONVERSION phase completes on a file list with distinct keys.
TiffCompletes ==
  /\ storage.status = "TIFF_CONVERSION"
  /\ last_op' \in TransitionOps
  /\ DistinctKeys(storage.current_file_list)

\* C22 as stated: the new list has every original file and one derived JPEG
\* per completed task, directly after its tagged source: new length = old
\* length + number of completed tasks.  Refuted: a task completed by a
\* success callback without the output fields derives no JPEG.
C22_OneJpegPerCompletedTask ==
  [][ TiffCompletes
        => TiffListAfter(storage.current_file_list, storage'.current_file_list,
                         storage'.current_phase_tasks,
                         CompletedTasks(storage'.current_phase_tasks)) ]_vars

\* C22 amended: the new list has every original file and one derived JPEG per
\* completed task that carries output key, name and size, directly after its
\* tagged source; the file of any other task passes through untagged.
C22_OneJpegPerConvertedTask ==
  [][ TiffCompletes
        => TiffListAfter(storage.current_file_list, storage'.current_file_list,
                         storage'.current_phase_tasks,
                         ConvertedTasks(storage'.current_phase_tasks)) ]_vars

\* C22 witness: two tasks completed, one of them without output fields: the
\* finished list holds one JPEG, after its source.
C22_Witness ==
  /\ last_op \in TransitionOps
  /\ storage.status = "DONE"
  /\ DistinctKeys(storage.current_file_list)
  /\ Cardinality(CompletedTasks(storage.current_phase_tasks)) = 2
  /\ Cardinality(ConvertedTasks(storage.current_phase_tasks)) = 1
  /\ Len(storage.current_file_list) = 3
  /\ \E p \in DOMAIN storage.current_file_list :
       storage.current_file_list[p].preprocessor_tags = <<"TiffConverter">>

\* A phase's transformFile applied to every file of a list, in order, each
\* with the task whose input key is the file's key.
phaseFold(phase, files, tasks) ==
  FlatMap(LAMBDA file : transformFile(phase, file, TaskForFile(tasks, file.r2_key)), files)

TaskIdsOf(tasks) == {tasks[i].task_id : i \in DOMAIN tasks}

\* The list of a finished batch is the fold of the executed phase over the
\* initial list of a queue message that yields its tasks, and is the body of
\* the run's delivery request.
DoneListIsFold ==
  storage.status = "DONE" =>
    /\ sent = <<storage.current_file_list>>
    /\ \E m \in QueueMessages :
         /\ TaskIdsOf(storage.current_phase_tasks)
              = TaskIdsOf(discover("TIFF_CONVERSION", InitialFiles(m)))
         /\ storage.current_file_list
              = phaseFold("TIFF_CONVERSION", InitialFiles(m), storage.current_phase_tasks)

\* C23: a DONE batch's current_file_list is the executed phase's transformFile
\* folded over the initial file list with the final task outcomes (a start
\* stores the initial list, only a transition changes it, and a transition
\* replaces it by the fold over the tasks as it leaves them), and the list
\* sent downstream at finalization is that persisted list.
C23_DoneListIsFoldOfPhases ==
  /\ []DoneListIsFold
  /\ [][ /\ last_op' = "start:fresh" =>
              \E m \in QueueMessages : storage'.current_file_list = InitialFiles(m)
         /\ last_op' \in TransitionOps =>
              /\ storage'.current_file_list
                   = phaseFold(storage.status, storage.current_file_list,
                               storage'.current_phase_tasks)
              /\ sent' = <<storage'.current_file_list>>
         /\ last_op' \notin TransitionOps \cup {"start:fresh"} =>
              /\ storage'.current_file_list = storage.current_file_list
              /\ sent' = sent
              /\ storage.status = "DONE" =>
                   storage'.current_phase_tasks = storage.current_phase_tasks ]_vars

\* C23 witness: the delivery request of a batch with a converted file is
\* under way.
C23_Witness ==
  /\ storage.status = "DONE"
  /\ pc = "delivering"
  /\ transitions = 1
  /\ sent = <<storage.current_file_list>>
  /\ Len(storage.current_file_list) = 3
  /\ \E p \in DOMAIN storage.current_file_list :
       storage.current_file_list[p].content_type = "image/jpeg"
         /\ storage.current_file_list[p].source_file # NoName

\* C24: the batch runs through both registered phases: when TIFF_CONVERSION
\* completes (or a start discovers no TIFF task) the batch enters
\* IMAGE_PROCESSING with the tasks discovered over the transformed list, and
\* goes on to DONE only if that discovery yields no task.  Refuted:
\* TiffConversionPhase.getNextPhase returns null, so the batch is finalized
\* with images that no second phase has processed.
C24_EveryRegisteredPhaseRuns ==
  [][ ( \/ storage.status = "TIFF_CONVERSION" /\ last_op' \in TransitionOps
        \/ last_op' = "start:fresh" /\ storage'.tasks_total = 0 )
        => LET tasks == discover("IMAGE_PROCESSING", storage'.current_file_list)
           IN IF tasks = <<>>
              THEN storage'.status = "DONE"
              ELSE /\ storage'.status = "IMAGE_PROCESSING"
                   /\ storage'.current_phase_tasks = fromEntries(tasks) ]_vars

\* C26: when an operation has returned (and while finalizeBatch awaits the
\* delivery response) the persisted state is the state the operation left in
\* memory: on success, on a retry, on giving up and on a failed delivery.
C26_PersistedIsInMemory == memory = storage

\* C26 witness: a tick that failed a task by timeout and then threw: the
\* retry persisted the counted retry together with the timeout.
C26_Witness ==
  /\ last_op = "alarm:retry"
  /\ memory = storage
  /\ storage.phase_retry_count = 1
  /\ storage.tasks_failed = 1
  /\ \E i \in DOMAIN storage.current_phase_tasks :
       storage.current_phase_tasks[i].error = "timed out"

\* C27: in both phases executeBatch returns false exactly when every task is
\* completed or failed as it returns: a tick that reported more work left a
\* task pending or processing, a tick that reported none left none.
\* Refuted for IMAGE_PROCESSING, whose executeBatch tests allDone before it
\* fails the timed-out tasks and then returns true.
C27_NoMoreWorkIffAllResolved ==
  /\ last_op = "alarm:more" => ~allDone(storage.current_phase_tasks)
  /\ last_op = "alarm:complete" => allDone(storage.current_phase_tasks)

StartedBy(old, new) ==
  {i \in DOMAIN new : /\ new[i].status = "processing"
                      /\ new[i].started_ago = 0
                      /\ (i \in DOMAIN old => old[i].status # "processing")}

\* C29: only pending tasks are dispatched: a tick starts only tasks that were
\* pending and workers only for those, leaves a processing task processing
\* with its earlier start time or fails it, leaves completed and failed tasks
\* as they are, and a tick that threw has dispatched nothing; so no task is
\* started twice.
C29_OnlyPendingDispatched ==
  [][ /\ last_op' \in TickOkOps =>
           LET old == storage.current_phase_tasks
               new == storage'.current_phase_tasks
           IN /\ \A i \in StartedBy(old, new) : old[i].status = "pending"
              /\ machines' \ machines
                   \subseteq {old[i].task_id : i \in StartedBy(old, new)}
              /\ \A i \in DOMAIN old :
                   /\ old[i].status = "processing" =>
                        \/ new[i].status = "failed"
                        \/ new[i].status = "processing" /\ new[i].started_ago > 0
                   /\ IsResolved(old[i]) => new[i].status = old[i].status
      /\ last_op' \in TickFailOps =>
           /\ machines' = machines
           /\ StartedBy(storage.current_phase_tasks, storage'.current_phase_tasks) = {} ]_vars

\* C29 witness: a tick that found one task timed out and another pending
\* dispatched only the pending one.
C29_Witness ==
  /\ last_op = "alarm:more"
  /\ \E i, j \in DOMAIN storage.current_phase_tasks :
       /\ storage.current_phase_tasks[i].status = "failed"
       /\ storage.current_phase_tasks[i].error = "timed out"
       /\ storage.current_phase_tasks[j].status = "processing"
       /\ storage.current_phase_tasks[j].started_ago = 0
       /\ storage.current_phase_tasks[j].task_id \in machines
       /\ storage.current_phase_tasks[i].task_id \in machines

\* C30: a tick dispatches at most the phase's batch size of tasks: the tasks
\* it moves from pending to processing, and the workers it adds, number at
\* most BATCH_SIZE of the phase.
C30_DispatchWithinBatchSize ==
  [][ last_op' \in TickOkOps =>
        LET old == storage.current_phase_tasks
            new == storage'.current_phase_tasks
            size == phaseBatchSize(config, storage.status)
        IN /\ Cardinality({i \in DOMAIN old : old[i].status = "pending"
                                               /\ new[i].status = "processing"}) <= size
           /\ Cardinality(machines' \ machines) <= size ]_vars

\* C30 witness: the image phase with a batch size of 1: after a tick one of
\* two tasks is started and the other is pending.
C30_Witness ==
  /\ last_op = "alarm:more"
  /\ storage.status = "IMAGE_PROCESSING"
  /\ config.BATCH_SIZE_IMAGE_PROCESSING = 1
  /\ Len(storage.current_phase_tasks) = 2
  /\ storage.current_phase_tasks[1].status = "processing"
  /\ storage.current_phase_tasks[1].started_ago = 0
  /\ storage.current_phase_tasks[2].status = "pending"

\* The alarm delay Config holds for a phase.
phaseAlarmDelay(cfg, phase) ==
  IF phase = "TIFF_CONVERSION" THEN cfg.ALARM_DELAY_TIFF_CONVERSION
  ELSE cfg.ALARM_DELAY_IMAGE_PROCESSING

\* C31: a successful tick that leaves more work re-arms the timer with the
\* delay configured for the phase that is current at that tick.  Refuted for
\* IMAGE_PROCESSING: alarm() re-arms with ALARM_DELAY_TIFF_CONVERSION in
\* every phase.
C31_RearmedWithPhaseDelay ==
  [][ last_op' = "alarm:more" => alarm' = phaseAlarmDelay(config, storage.status) ]_vars

\* The tags a phase's transformFile writes.
PhaseTags(phase) ==
  IF phase = "TIFF_CONVERSION" THEN {"TiffConverter:source", "TiffConverter"}
  ELSE {"ImageProcessor"}

TaggedBy(phase, file) == \E tag \in PhaseTags(phase) : includes(file.preprocessor_tags, tag)

\* The current phase's transformed output of the current file list.
OwnOutput(state) == applyPhaseTransformations(state, state.status)

\* C32 (as stated): a phase's discover, run on that phase's own transformed
\* output list, creates no task for a file the phase emitted or tagged.
\* Refuted for TIFF_CONVERSION, whose discover selects by file name only.
C32_DiscoverSkipsOwnOutput ==
  storage.status \in Phases =>
    \A k \in DOMAIN OwnOutput(storage) :
       TaggedBy(storage.status, OwnOutput(storage)[k])
         => discover(storage.status, <<OwnOutput(storage)[k]>>) = <<>>

\* C32 (amended): the image phase's discover creates no task for a file that
\* the TIFF phase tagged as a converted source, nor for a file that the image
\* phase emitted; the TIFF phase's discover has no tag check and creates a
\* task for a TIFF that carries its own source tag.
C32_ImageDiscoverSkipsTiffSources ==
  storage.status \in Phases =>
    \A k \in DOMAIN OwnOutput(storage) :
       LET file == OwnOutput(storage)[k]
       IN /\ includes(file.preprocessor_tags, "TiffConverter:source")
               => ImageDiscover(<<file>>) = <<>>
          /\ includes(file.preprocessor_tags, "ImageProcessor")
               => ImageDiscover(<<file>>) = <<>>
          /\ includes(file.preprocessor_tags, "TiffConverter:source") /\ isTiff(file.file_name)
               => Len(TiffDiscover(<<file>>)) = 1

\* C32 witness: an image phase whose list holds a tagged TIFF source with the
\* content type of a JPEG and whose output holds a file the phase emitted.
C32_Witness ==
  /\ storage.status = "IMAGE_PROCESSING"
  /\ \E k \in DOMAIN storage.current_file_list :
       /\ includes(storage.current_file_list[k].preprocessor_tags, "TiffConverter:source")
       /\ isProcessableImage(storage.current_file_list[k])
  /\ \E k \in DOMAIN OwnOutput(storage) :
       includes(OwnOutput(storage)[k].preprocessor_tags, "ImageProcessor")

\* The state a completed phase hands to the next: its file list transformed.
Transformed(state) ==
  [state EXCEPT !.current_file_list = applyPhaseTransformations(state, state.status)]

\* entered is a fresh IMAGE_PROCESSING phase over its file list: its tasks
\* are the discovered ones, all pending, none a task of the phase before.
EnteredFresh(entered, before) ==
  LET found == ImageDiscover(entered.current_file_list)
  IN /\ entered.status = "IMAGE_PROCESSING"
     /\ TaskIdsOf(entered.current_phase_tasks) = TaskIdsOf(found)
     /\ \A i \in DOMAIN entered.current_phase_tasks :
          /\ entered.current_phase_tasks[i].status = "pending"
          /\ entered.current_phase_tasks[i].started_ago = NoTime
          /\ PhaseOfTask(entered.current_phase_tasks[i]) = "IMAGE_PROCESSING"
          /\ ~HasTask(before.current_phase_tasks, entered.current_phase_tasks[i].task_id)
     /\ entered.tasks_total = Len(found)
     /\ entered.tasks_completed = 0
     /\ entered.tasks_failed = 0
     /\ entered.phase_retry_count = 0

\* C33: a transition into a next phase replaces current_phase_tasks by the
\* tasks discovered for the new phase, all pending and none carried over,
\* sets tasks_completed and tasks_failed to 0, tasks_total to the number
\* discovered and phase_retry_count to 0: so for the transition out of every
\* TIFF_CONVERSION state, whatever its counters, and in the state persisted
\* on entering IMAGE_PROCESSING.
C33_NextPhaseStartsFresh ==
  /\ storage.status = "TIFF_CONVERSION"
       => EnteredFresh(enterPhase(Transformed(storage), "IMAGE_PROCESSING"), storage)
  /\ (storage.status = "IMAGE_PROCESSING" /\ last_op = "none")
       => /\ \A i \in DOMAIN storage.current_phase_tasks :
               /\ storage.current_phase_tasks[i].status = "pending"
               /\ PhaseOfTask(storage.current_phase_tasks[i]) = "IMAGE_PROCESSING"
          /\ TaskIdsOf(storage.current_phase_tasks)
               = TaskIdsOf(ImageDiscover(storage.current_file_list))
          /\ storage.tasks_total = Len(ImageDiscover(storage.current_file_list))
          /\ storage.tasks_completed = 0 /\ storage.tasks_failed = 0
          /\ storage.phase_retry_count = 0

\* C33 witness: a TIFF phase with completed and failed tasks counted and a
\* retry pending, whose transition would discover an image task.
C33_Witness ==
  /\ storage.status = "TIFF_CONVERSION"
  /\ storage.tasks_completed > 0
  /\ storage.tasks_failed > 0
  /\ storage.phase_retry_count > 0
  /\ enterPhase(Transformed(storage), "IMAGE_PROCESSING").tasks_total > 0

\* C34: at an operation boundary a batch whose status is a phase and that
\* has at least one task has an armed timer.
C34_RunningBatchHasTimer ==
  (pc = "idle" /\ storage.status \in Phases /\ Len(storage.current_phase_tasks) > 0)
     => alarm # NoAlarm

\* C34 witness: a tick left more work, then a callback resolved one task of
\* several and left the phase running on the timer of that tick.
C34_Witness ==
  /\ pc = "idle"
  /\ last_op = "callback:more"
  /\ storage.status \in Phases
  /\ ~allDone(storage.current_phase_tasks)
  /\ storage.tasks_completed + storage.tasks_failed > 0
  /\ alarm # NoAlarm

\* A batch that was started and is in a phase.
Running == Exists(storage) /\ ~Terminal(storage)

\* The last tick selected a pending task whose dispatch was rejected: the
\* tasks it selected are the first BATCH_SIZE of those it started and those
\* still pending.
LastTickRejected ==
  /\ last_op = "alarm:more"
  /\ LET tasks == storage.current_phase_tasks
         candidates ==
           Filter(LAMBDA i : \/ tasks[i].status = "pending"
                             \/ tasks[i].status = "processing" /\ tasks[i].started_ago = 0,
                  [i \in DOMAIN tasks |-> i])
         size == phaseBatchSize(config, storage.status)
     IN \E n \in 1..Min(size, Len(candidates)) : tasks[candidates[n]].status = "pending"

\* C35 (as stated): under fair timer firing alone every started batch
\* eventually reaches DONE or ERROR.  Refuted: a rejected dispatch leaves its
\* task pending and the tick counts as a success.
C35_StartedBatchTerminates == Running ~> Terminal(storage)

\* C35 (amended): under fair timer firing every started batch eventually
\* reaches DONE or ERROR, unless ticks go on for ever having a dispatch
\* rejected.
C35_TerminatesUnlessDispatchKeepsFailing ==
  ([]<>LastTickRejected) \/ (Running ~> Terminal(storage))

\* C35 witness: a batch that came to DONE by a tick that found its last task
\* timed out.
C35_Witness ==
  /\ storage.status = "DONE"
  /\ last_op = "alarm:complete"
  /\ storage.tasks_failed > 0
  /\ \E i \in DOMAIN storage.current_phase_tasks :
       storage.current_phase_tasks[i].error = "timed out"

\* C36: in every reachable state tasks_completed is the number of completed
\* tasks of current_phase_tasks and tasks_failed the number of failed ones.
\* Refuted: the callback of a task that is already resolved is counted again.
C36_CountersMatchStatuses ==
  /\ storage.tasks_completed = Cardinality(CompletedTasks(storage.current_phase_tasks))
  /\ storage.tasks_failed = Cardinality(FailedTasks(storage.current_phase_tasks))

\* C37: in every reachable state tasks_total is the number of entries of
\* current_phase_tasks, also for a file list in which two files share a
\* storage key.  Refuted: tasks_total is the number of tasks discovered,
\* counted before Object.fromEntries merges the tasks of one task id.
C37_TotalIsNumberOfEntries ==
  storage.tasks_total = Len(storage.current_phase_tasks)

\* C38: a callback that arrives while the status is DONE or ERROR, for a task
\* id that current_phase_tasks holds, changes nothing: the tasks, the
\* counters, the status, the file list and the timer stay as they are, no
\* transition and no finalization runs.  (The call throws: no phase is
\* registered for DONE or ERROR.)
C38_CallbackInTerminalStateChangesNothing ==
  [][ ( /\ pc = "idle"
        /\ Terminal(storage)
        /\ \E posted \in machines :
             /\ machines' = machines \ {posted}
             /\ HasTask(storage.current_phase_tasks, posted) )
        => ( /\ last_op' = "callback:throws"
             /\ storage' = storage
             /\ alarm' = alarm
             /\ pc' = pc
             /\ transitions' = transitions
             /\ deliveries' = deliveries
             /\ sent' = sent ) ]_vars

\* C38 witness: a callback was rejected by a finished batch that holds a task
\* for every task id a worker can post, and whose timer is still armed.
C38_Witness ==
  /\ last_op = "callback:throws"
  /\ storage.status = "DONE"
  /\ alarm # NoAlarm
  /\ storage.tasks_completed + storage.tasks_failed > 0
  /\ \A i \in DOMAIN QueueFiles :
       isTiff(QueueFiles[i].file_name)
         => HasTask(storage.current_phase_tasks, generateTaskId("tiff", QueueFiles[i].r2_key))

(***************************************************************************)
(* The phases under the deployments above and under one that allows no     *)
(* retry at all: MAX_RETRY_ATTEMPTS = 0.                                    *)
(***************************************************************************)
NoRetryEnv ==
  [ BATCH_SIZE_TIFF_CONVERSION    |-> 1,
    ALARM_DELAY_TIFF_CONVERSION   |-> 2000,
    TASK_TIMEOUT_TIFF_CONVERSION  |-> 1000,
    TASK_TIMEOUT_IMAGE_PROCESSING |-> 1000,
    MAX_RETRY_ATTEMPTS            |-> 0 ]

RetryEnvs == Envs \cup {NoRetryEnv}

InitRetry ==
  /\ env \in RetryEnvs
  /\ storage \in PhaseEntries
  /\ alarm = 1000
  /\ pc = "idle"
  /\ machines = {}
  /\ last_op = "none"
  /\ transitions = 0
  /\ deliveries = 0
  /\ failed_ticks = 0
  /\ retry_before = 0
  /\ sent = <<>>
  /\ memory = storage

RetrySpec == InitRetry /\ [][NextPhase]_vars

\* C39 (as stated): phase_retry_count never exceeds MAX_RETRY_ATTEMPTS, and
\* is below it whenever the status is a phase.  Refuted for
\* MAX_RETRY_ATTEMPTS = 0: handleError counts the failure before it compares.
C39_RetryCountWithinLimit ==
  /\ storage.phase_retry_count <= config.MAX_RETRY_ATTEMPTS
  /\ storage.status \in Phases => storage.phase_retry_count < config.MAX_RETRY_ATTEMPTS

\* C39 (amended): phase_retry_count never exceeds the larger of
\* MAX_RETRY_ATTEMPTS and 1, and is below that whenever the status is a phase.
C39_RetryCountWithinLimitOfAtLeastOne ==
  /\ storage.phase_retry_count <= Max(config.MAX_RETRY_ATTEMPTS, 1)
  /\ storage.status \in Phases
       => storage.phase_retry_count < Max(config.MAX_RETRY_ATTEMPTS, 1)

\* C39 witness: with MAX_RETRY_ATTEMPTS = 0 the first throwing tick gave up
\* with a count of 1.
C39_Witness ==
  /\ last_op = "alarm:giveup"
  /\ config.MAX_RETRY_ATTEMPTS = 0
  /\ storage.status = "ERROR"
  /\ storage.phase_retry_count = 1

====
